---- MODULE Spec2Model ----
(***************************************************************************)
(* Merchant-Hub-API: the access-control engine (role catalog, permission   *)
(* overrides, permission resolver, ownership policy, permission gate),     *)
(* the cached single-resource read handlers and the order requests         *)
(* (cancel, status update, list), as a state machine.                      *)
(*                                                                         *)
(* Every database statement and every cache command is one atomic step; a  *)
(* handler is the sequence of its awaits.  A SELECT without ORDER BY reads  *)
(* its rows in an unspecified order and a LIMIT 1 returns an unspecified   *)
(* matching row: both are nondeterministic choices.                        *)
(***************************************************************************)
EXTENDS Integers, Sequences, FiniteSets, TLC

VARIABLES
    users,            \* usersTable: id -> [role, merchant_id]
    userPermissions,  \* userPermissionsTable: set of rows
    nextPermId,       \* identity column of userPermissionsTable
    grantCall,        \* grantPermission invocations in flight, per request slot
    lastDone,         \* history: the last grantPermission call that returned successfully
    permCheck,        \* the requirePermission middleware invocation in flight
    orders,           \* ordersTable: id -> [customer_id, merchant_id, status]
    products,         \* productsTable: id -> [created_by, merchant_id]
    redisStore,       \* Redis: key -> cached value, or NoEntry
    isConnected,      \* redis.ts isConnected
    readReq,          \* a get-by-id request in flight
    policyCall,       \* the last call of an ABACPolicy method: its context and result
    ownCheck,         \* the checkResourceOwnership middleware invocation in flight
    orderReq,         \* order requests in flight (cancel, status update, list, create), per slot
    roleCheck,        \* the last requireRole middleware invocation: its input and outcome
    userReq,          \* a create-user request in flight
    productReq        \* a product create, update or delete request in flight

vars == <<users, userPermissions, nextPermId, grantCall, lastDone, permCheck,
          orders, products, redisStore, isConnected, readReq,
          policyCall, ownCheck, orderReq, roleCheck, userReq, productReq>>

permVars == <<userPermissions, nextPermId, grantCall, lastDone>>
resVars  == <<orders, products, redisStore, isConnected, readReq>>
reqVars  == <<policyCall, ownCheck, orderReq>>
moreVars == <<roleCheck, userReq, productReq>>

----------------------------------------------------------------------------
(* Bounds of the model *)

\* userPermissionsTable holds at most this many rows (caps the identity column)
MaxPermRows == 3

----------------------------------------------------------------------------
(* Role catalog and permission enumeration *)

SUPER_ADMIN == "super_admin"
ADMIN       == "admin"
MERCHANT    == "merchant"
CUSTOMER    == "customer"
VIEWER      == "viewer"

Role == {SUPER_ADMIN, ADMIN, MERCHANT, CUSTOMER, VIEWER}

\* a role string that the token carries but the enumeration does not know
UNKNOWN_ROLE == "guest"

AnyRole == Role \cup {UNKNOWN_ROLE}

Permission ==
    {"products.create", "products.read", "products.update", "products.delete",
     "orders.create", "orders.read", "orders.update", "orders.delete",
     "orders.cancel",
     "users.create", "users.read", "users.update", "users.delete"}

\* merchant_id: number | null
NULL == 0

\* JavaScript undefined: an optional field of AccessContext that was not given
Undefined == -2

\* req.user absent
NoUser == [id |-> NULL, role |-> "none", merchant_id |-> NULL]

\* HttpStatusCodes: the statuses a handler or middleware ends with
Unauthorized == "Unauthorized"
Forbidden    == "Forbidden"
NotFound     == "NotFound"
OK           == "OK"
BadRequest   == "BadRequest"
Created      == "Created"
Conflict     == "Conflict"

\* no result yet
Pending == "pending"

\* rbac.middleware.ts: DEFAULT_ROLE_PERMISSIONS
RbacDefaultRolePermissions(role) ==
    CASE role = SUPER_ADMIN ->
           {"products.create", "products.read", "products.update", "products.delete",
            "orders.create", "orders.read", "orders.update", "orders.delete",
            "orders.cancel",
            "users.create", "users.read", "users.update", "users.delete"}
      [] role = ADMIN ->
           {"products.create", "products.read", "products.update", "products.delete",
            "orders.read", "orders.update", "orders.cancel", "users.read"}
      [] role = MERCHANT ->
           {"products.create", "products.read", "products.update",
            "orders.read", "orders.update", "orders.cancel"}
      [] role = CUSTOMER ->
           {"products.read", "orders.create", "orders.read", "orders.cancel"}
      [] role = VIEWER -> {"products.read", "orders.read"}
      [] OTHER -> {}      \* DEFAULT_ROLE_PERMISSIONS[role] || []

\* auth.service.ts: the DEFAULT_ROLE_PERMISSIONS local to getUserPermissions
AuthDefaultRolePermissions(role) ==
    CASE role = SUPER_ADMIN -> Permission      \* Object.values(Permission)
      [] role = ADMIN ->
           {"products.create", "products.read", "products.update", "products.delete",
            "orders.read", "orders.update", "orders.cancel", "users.read"}
      [] role = MERCHANT ->
           {"products.create", "products.read", "products.update",
            "orders.read", "orders.update", "orders.cancel"}
      [] role = CUSTOMER ->
           {"products.read", "orders.create", "orders.read", "orders.cancel"}
      [] role = VIEWER -> {"products.read", "orders.read"}
      [] OTHER -> {}      \* DEFAULT_ROLE_PERMISSIONS[role] || []

----------------------------------------------------------------------------
(* Reading the override store *)

\* SELECT * FROM table WHERE user_id = userId
UserRowsIn(table, userId) == {r \in table : r.user_id = userId}

\* SELECT * FROM table WHERE user_id = userId AND permission = permission
PairRowsIn(table, userId, permission) ==
    {r \in table : r.user_id = userId /\ r.permission = permission}

\* the same two queries on userPermissionsTable as it is now
RowsOfUser(userId) == UserRowsIn(userPermissions, userId)

RowsOfPair(userId, permission) == PairRowsIn(userPermissions, userId, permission)

\* every order in which a SELECT without ORDER BY may return a set of rows
ReadOrders(rows) ==
    LET n == Cardinality(rows)
    IN  {f \in [1..n -> rows] : \A i, j \in 1..n : i # j => f[i] # f[j]}

----------------------------------------------------------------------------
(* Permission resolver *)

\* rbac.middleware.ts hasPermission: the loop over the override rows
RECURSIVE ApplyOverridesToCheck(_, _, _)
ApplyOverridesToCheck(hasAccess, overrides, requiredPermission) ==
    IF overrides = <<>> THEN hasAccess
    ELSE LET override == Head(overrides)
         IN  ApplyOverridesToCheck(
                 IF override.permission = requiredPermission
                     THEN override.granted ELSE hasAccess,
                 Tail(overrides), requiredPermission)

\* rbac.middleware.ts hasPermission(userId, role, requiredPermission); overrides
\* is the result of the SELECT for userId, in the order the database returned it
hasPermission(role, overrides, requiredPermission) ==
    IF role = SUPER_ADMIN THEN TRUE
    ELSE ApplyOverridesToCheck(
             requiredPermission \in RbacDefaultRolePermissions(role),
             overrides, requiredPermission)

\* a resolver whose revoke branch leaves the set as it is
ApplyOverride_RevokeIgnored(basePermissions, override) ==
    IF override.granted
        THEN basePermissions \cup {override.permission}
        ELSE basePermissions

\* auth.service.ts getUserPermissions: one iteration of the loop over the overrides
ApplyOverride(basePermissions, override) ==
    IF override.granted
        THEN basePermissions \cup {override.permission}
        ELSE basePermissions \ {override.permission}

RECURSIVE ApplyOverrides(_, _)
ApplyOverrides(basePermissions, overrides) ==
    IF overrides = <<>> THEN basePermissions
    ELSE ApplyOverrides(ApplyOverride(basePermissions, Head(overrides)),
                        Tail(overrides))

\* auth.service.ts getUserPermissions(userId, role), as the set of its result
getUserPermissions(role, overrides) ==
    ApplyOverrides(AuthDefaultRolePermissions(role), overrides)

----------------------------------------------------------------------------
(* The data the model starts from *)

\* usersTable rows present at start: one user of every role, a second customer
SeedUsers ==
    (1 :> [role |-> SUPER_ADMIN, merchant_id |-> NULL, email |-> "u1@shop"]) @@
    (2 :> [role |-> ADMIN,       merchant_id |-> NULL, email |-> "u2@shop"]) @@
    (3 :> [role |-> MERCHANT,    merchant_id |-> NULL, email |-> "u3@shop"]) @@
    (4 :> [role |-> CUSTOMER,    merchant_id |-> NULL, email |-> "u4@shop"]) @@
    (5 :> [role |-> VIEWER,      merchant_id |-> NULL, email |-> "u5@shop"]) @@
    (6 :> [role |-> CUSTOMER,    merchant_id |-> NULL, email |-> "u6@shop"])

\* a user id that is in no row of usersTable
MissingUserId == 9

\* the AuthUser the authenticate middleware puts in req.user for a stored user
AuthUserOf(id) ==
    [id |-> id, role |-> users[id].role, merchant_id |-> users[id].merchant_id]

\* request slots: grantPermission invocations that may be in flight together
GrantSlots == {"g1", "g2"}

\* the inputs of POST /permissions the model draws from
GrantActors  == {1, 2, 4}
GrantTargets == {1, 4, MissingUserId}
GrantPerms   == {"orders.read", "users.update"}

GrantInputs ==
    [user_id : GrantTargets, permission : GrantPerms, granted : BOOLEAN]

NoData == [user_id |-> NULL, permission |-> "none", granted |-> FALSE]

IdleCall ==
    [pc |-> "idle", actor |-> NoUser, data |-> NoData, existing |-> NULL,
     result |-> Pending, solo |-> FALSE]

NoCall == [data |-> NoData, solo |-> FALSE]

----------------------------------------------------------------------------
(* grantPermission (auth.service.ts), one step per await *)

InFlight(s) == grantCall[s].pc \in {"selectTarget", "selectExisting", "write"}

InFlightSlots == {s \in GrantSlots : InFlight(s)}

\* the call has returned or thrown; until the response is sent the slot keeps who
\* asked, for which user, and the result
Finished(call, result) ==
    [call EXCEPT !.pc = "done", !.existing = NULL, !.result = result, !.solo = FALSE,
                 !.data = [NoData EXCEPT !.user_id = call.data.user_id]]

\* entry: the requesting user's role is checked before any database access
CanManagePermissions(requestingUser) ==
    requestingUser.role = SUPER_ADMIN \/ requestingUser.role = ADMIN

GrantBegin(s, requestingUser, data) ==
    /\ grantCall[s].pc = "idle"
    /\ Cardinality(userPermissions) + Cardinality(InFlightSlots) < MaxPermRows
    /\ IF ~CanManagePermissions(requestingUser)
          THEN grantCall' = [grantCall EXCEPT ![s] =
                  Finished([IdleCall EXCEPT !.actor = requestingUser, !.data = data],
                           Forbidden)]
          ELSE grantCall' =
                  [t \in GrantSlots |->
                      IF t = s
                         THEN [pc |-> "selectTarget", actor |-> requestingUser,
                               data |-> data, existing |-> NULL, result |-> Pending,
                               solo |-> (InFlightSlots = {})]
                         ELSE IF InFlight(t)
                                 THEN [grantCall[t] EXCEPT !.solo = FALSE]
                                 ELSE grantCall[t]]
    /\ UNCHANGED <<users, moreVars, reqVars, userPermissions, nextPermId, lastDone, permCheck, resVars>>

\* the checks on the target user row without the super-admin guard
TargetCheck_NoSuperAdminGuard(requestingUser, userId) ==
    IF userId \notin DOMAIN users THEN NotFound ELSE OK

\* the outcome of the checks on the target user row
TargetCheck(requestingUser, userId) ==
    IF userId \notin DOMAIN users THEN NotFound
    ELSE IF users[userId].role = "super_admin" /\ requestingUser.role # SUPER_ADMIN
         THEN Forbidden
         ELSE OK

\* SELECT the target user, then the two checks on it
GrantSelectTarget(s) ==
    LET c == grantCall[s]
        outcome == TargetCheck(c.actor, c.data.user_id)
    IN  /\ c.pc = "selectTarget"
        /\ grantCall' = [grantCall EXCEPT ![s] =
                            IF outcome = OK
                               THEN [c EXCEPT !.pc = "selectExisting"]
                               ELSE Finished(c, outcome)]
        /\ UNCHANGED <<users, moreVars, reqVars, userPermissions, nextPermId, lastDone, permCheck, resVars>>

\* SELECT ... WHERE user_id AND permission LIMIT 1: some matching row, or none
GrantSelectExisting(s) ==
    LET c == grantCall[s]
        rows == RowsOfPair(c.data.user_id, c.data.permission)
    IN  /\ c.pc = "selectExisting"
        /\ \/ /\ rows = {}
              /\ grantCall' = [grantCall EXCEPT ![s] =
                                  [c EXCEPT !.pc = "write", !.existing = NULL]]
           \/ \E r \in rows :
                 grantCall' = [grantCall EXCEPT ![s] =
                                  [c EXCEPT !.pc = "write", !.existing = r.id]]
        /\ UNCHANGED <<users, moreVars, reqVars, userPermissions, nextPermId, lastDone, permCheck, resVars>>

\* UPDATE user_permissions SET granted WHERE id = existing.id
UpdateGranted(table, id, granted) ==
    {IF r.id = id THEN [r EXCEPT !.granted = granted] ELSE r : r \in table}

\* INSERT INTO user_permissions (user_id, permission, granted)
InsertOverride(table, id, data) ==
    table \cup {[id |-> id, user_id |-> data.user_id,
                 permission |-> data.permission, granted |-> data.granted]}

\* a blind insert, whatever was read
WriteOverride_BlindInsert(table, id, existing, data) ==
    InsertOverride(table, id, data)

\* the write that grantPermission chose from what it read
WriteOverride(table, id, existing, data) ==
    IF existing # NULL
       THEN UpdateGranted(table, existing, data.granted)
       ELSE InsertOverride(table, id, data)

\* history: a write to the override store ends the stability of a running check
Unsettle(check) == [check EXCEPT !.stable = FALSE]

GrantWrite(s) ==
    LET c == grantCall[s]
    IN  /\ c.pc = "write"
        /\ userPermissions' = WriteOverride(userPermissions, nextPermId, c.existing, c.data)
        /\ nextPermId' = IF c.existing # NULL THEN nextPermId ELSE nextPermId + 1
        /\ lastDone' = [data |-> c.data, solo |-> c.solo]
        /\ grantCall' = [grantCall EXCEPT ![s] = Finished(c, OK)]
        /\ permCheck' = Unsettle(permCheck)
        /\ UNCHANGED <<users, moreVars, reqVars, resVars>>

\* the response is sent; the slot is free for the next request
GrantReturn(s) ==
    /\ grantCall[s].pc = "done"
    /\ grantCall' = [grantCall EXCEPT ![s] = IdleCall]
    /\ UNCHANGED <<users, moreVars, reqVars, userPermissions, nextPermId, lastDone, permCheck, resVars>>

----------------------------------------------------------------------------
(* requirePermission (rbac.middleware.ts): Promise.all over hasPermission *)

\* the permission lists requirePermission(...) is built with
CheckLists ==
    {<<>>, <<"orders.read">>, <<"users.update">>,
     <<"orders.read", "users.update">>, <<"users.update", "orders.read">>}

\* the principals that send the checked request
CheckUsers == {1, 4}

IdleCheck ==
    [pc |-> "idle", user |-> NoUser, permissions |-> <<>>, waiting |-> {},
     hasAnyPermission |-> <<>>, outcome |-> Pending, stable |-> FALSE]

\* hasAnyPermission.some((result) => result)
SomeResult(hasAnyPermission) ==
    \E i \in DOMAIN hasAnyPermission : hasAnyPermission[i]

\* a gate that asks for every listed permission instead of any
GateOutcome_Every(hasAnyPermission) ==
    IF \A i \in DOMAIN hasAnyPermission : hasAnyPermission[i] THEN "next" ELSE Forbidden

\* what the middleware does once every hasPermission promise has resolved
GateOutcome(hasAnyPermission) ==
    IF ~SomeResult(hasAnyPermission) THEN Forbidden ELSE "next"

\* the middleware is entered; every hasPermission call is started
CheckBegin(user, permissions) ==
    /\ permCheck.pc = "idle"
    /\ permCheck' =
          IF user = NoUser
             THEN [IdleCheck EXCEPT !.pc = "done", !.permissions = permissions,
                                    !.outcome = Unauthorized]
             ELSE [pc |-> "checking", user |-> user, permissions |-> permissions,
                   waiting |-> DOMAIN permissions,
                   hasAnyPermission |-> [i \in DOMAIN permissions |-> FALSE],
                   outcome |-> Pending, stable |-> TRUE]
    /\ UNCHANGED <<users, moreVars, reqVars, permVars, resVars>>

\* one hasPermission call reads the user's override rows and resolves
CheckEval(i) ==
    /\ permCheck.pc = "checking"
    /\ i \in permCheck.waiting
    /\ \E overrides \in ReadOrders(RowsOfUser(permCheck.user.id)) :
          permCheck' =
             [permCheck EXCEPT
                 !.waiting = @ \ {i},
                 !.hasAnyPermission[i] =
                     hasPermission(permCheck.user.role, overrides,
                                   permCheck.permissions[i])]
    /\ UNCHANGED <<users, moreVars, reqVars, permVars, resVars>>

\* Promise.all has resolved: next() or 403
CheckDecide ==
    /\ permCheck.pc = "checking"
    /\ permCheck.waiting = {}
    /\ permCheck' = [permCheck EXCEPT
                        !.pc = "done",
                        !.outcome = GateOutcome(permCheck.hasAnyPermission)]
    /\ UNCHANGED <<users, moreVars, reqVars, permVars, resVars>>

CheckReturn ==
    /\ permCheck.pc = "done"
    /\ permCheck' = IdleCheck
    /\ UNCHANGED <<users, moreVars, reqVars, permVars, resVars>>

----------------------------------------------------------------------------
(* Ownership policy (abac.middleware.ts) *)

\* canAccessResource without the self-merchant convention for merchants
canAccessResource_NoSelfMerchant(user, resourceOwnerId, resourceMerchantId, action) ==
    IF user.role \in {SUPER_ADMIN, ADMIN} THEN TRUE
    ELSE IF user.role = MERCHANT
         THEN \/ resourceOwnerId = user.id
              \/ resourceMerchantId = user.merchant_id
    ELSE IF user.role = CUSTOMER THEN resourceOwnerId = user.id
    ELSE IF user.role = VIEWER THEN action = "read"
    ELSE FALSE

\* canAccessResource with the merchant rule applied to customers too
canAccessResource_CustomerMerchantMatch(user, resourceOwnerId, resourceMerchantId, action) ==
    IF user.role \in {SUPER_ADMIN, ADMIN} THEN TRUE
    ELSE IF user.role \in {MERCHANT, CUSTOMER}
         THEN \/ resourceOwnerId = user.id
              \/ resourceMerchantId = user.merchant_id
              \/ resourceMerchantId = user.id
    ELSE IF user.role = VIEWER THEN action = "read"
    ELSE FALSE

\* canAccessResource with the admin branch ending in `return false`
canAccessResource_AdminScoped(user, resourceOwnerId, resourceMerchantId, action) ==
    IF user.role = SUPER_ADMIN THEN TRUE
    ELSE IF user.role = ADMIN
         THEN \/ resourceOwnerId = user.id
              \/ user.id = resourceMerchantId
    ELSE IF user.role = MERCHANT
         THEN \/ resourceOwnerId = user.id
              \/ resourceMerchantId = user.merchant_id
              \/ resourceMerchantId = user.id
    ELSE IF user.role = CUSTOMER THEN resourceOwnerId = user.id
    ELSE IF user.role = VIEWER THEN action = "read"
    ELSE FALSE

\* ABACPolicy.canAccessResource(context)
canAccessResource(user, resourceOwnerId, resourceMerchantId, action) ==
    IF user.role = SUPER_ADMIN THEN TRUE
    ELSE IF user.role = ADMIN THEN TRUE     \* every path of the admin branch returns true
    ELSE IF user.role = MERCHANT
         THEN \/ resourceOwnerId = user.id
              \/ resourceMerchantId = user.merchant_id
              \/ resourceMerchantId = user.id
    ELSE IF user.role = CUSTOMER THEN resourceOwnerId = user.id
    ELSE IF user.role = VIEWER THEN action = "read"
    ELSE FALSE

\* canCancelResource accepting ownership for merchants as canAccessResource does
canCancelResource_OwnerAccepted(user, resourceOwnerId, resourceMerchantId) ==
    IF user.role \in {SUPER_ADMIN, ADMIN} THEN TRUE
    ELSE IF user.role = MERCHANT
         THEN \/ resourceOwnerId = user.id
              \/ resourceMerchantId = user.merchant_id
              \/ resourceMerchantId = user.id
    ELSE IF user.role = CUSTOMER THEN resourceOwnerId = user.id
    ELSE FALSE

\* canCancelResource with the merchant_id comparison repeated in the customer branch
canCancelResource_CustomerMerchantMatch(user, resourceOwnerId, resourceMerchantId) ==
    IF user.role \in {SUPER_ADMIN, ADMIN} THEN TRUE
    ELSE IF user.role = MERCHANT
         THEN \/ resourceMerchantId = user.merchant_id
              \/ resourceMerchantId = user.id
    ELSE IF user.role = CUSTOMER
         THEN \/ resourceOwnerId = user.id
              \/ resourceMerchantId = user.merchant_id
    ELSE FALSE

\* ABACPolicy.canCancelResource(context): the action of the context is not read
canCancelResource(user, resourceOwnerId, resourceMerchantId) ==
    IF user.role = SUPER_ADMIN THEN TRUE
    ELSE IF user.role = ADMIN THEN TRUE
    ELSE IF user.role = MERCHANT
         THEN \/ resourceMerchantId = user.merchant_id
              \/ resourceMerchantId = user.id
    ELSE IF user.role = CUSTOMER THEN resourceOwnerId = user.id
    ELSE FALSE

\* JavaScript truthiness of a number, null or undefined (0 and null are NULL)
Truthy(x) == x \notin {NULL, Undefined}

\* JavaScript a || b
OrElse(a, b) == IF Truthy(a) THEN a ELSE b

\* Math.max(...levels) of a non-empty list of numbers
MathMax(levels) == CHOOSE m \in levels : \A x \in levels : x <= m

\* the object {} and the objects with one field that getDataFilter returns
EmptyFilter == [f \in {} |-> NULL]
FilterOn(field, value) == [f \in {field} |-> value]

\* the id of the "impossible filter" { id: -1 }
ImpossibleId == -1

\* obj.field of a filter object: undefined when the object has no such field
FieldOf(filter, field) ==
    IF field \in DOMAIN filter THEN filter[field] ELSE Undefined

\* getDataFilter with the merchant scope always the principal's own id
getDataFilter_MerchantOwnId(user) ==
    CASE user.role \in {SUPER_ADMIN, ADMIN, VIEWER} -> EmptyFilter
      [] user.role = MERCHANT -> FilterOn("merchant_id", user.id)
      [] user.role = CUSTOMER -> FilterOn("customer_id", user.id)
      [] OTHER -> FilterOn("id", ImpossibleId)

\* getDataFilter with the customer branch returning {} as the viewer branch does
getDataFilter_CustomerUnscoped(user) ==
    CASE user.role \in {SUPER_ADMIN, ADMIN, VIEWER, CUSTOMER} -> EmptyFilter
      [] user.role = MERCHANT -> FilterOn("merchant_id", OrElse(user.merchant_id, user.id))
      [] OTHER -> FilterOn("id", ImpossibleId)

\* ABACPolicy.getDataFilter(user)
getDataFilter(user) ==
    CASE user.role = SUPER_ADMIN -> EmptyFilter
      [] user.role = ADMIN -> EmptyFilter
      [] user.role = MERCHANT -> FilterOn("merchant_id", OrElse(user.merchant_id, user.id))
      [] user.role = CUSTOMER -> FilterOn("customer_id", user.id)
      [] user.role = VIEWER -> EmptyFilter
      [] OTHER -> FilterOn("id", ImpossibleId)

----------------------------------------------------------------------------
(* Orders, products and the Redis cache in front of the get-by-id handlers *)

\* ordersTable rows present at start
SeedOrders ==
    (1 :> [id |-> 1, customer_id |-> 4, merchant_id |-> 3, status |-> "pending"])

\* productsTable rows present at start (createProduct: merchant_id = creator's)
SeedProducts ==
    (1 :> [id |-> 1, created_by |-> 3, merchant_id |-> 3, name |-> "a",
           deleted_at |-> NULL])

\* the ids a request may name: a stored row and a missing one
ResourceIds == {1, 2}

ResourceKinds == {"orders", "products"}

\* CACHE_KEYS.ORDERS.SINGLE(id) = `orders:${id}`, CACHE_KEYS.PRODUCTS.SINGLE(id)
CacheKey(kind, id) == <<kind, id>>

\* buildOrdersCacheKey(userId, role, merchantId) = `orders:list:${hash}`: one key
\* for each principal (merchantId is a function of the user here)
\* buildOrdersCacheKey hashing the role alone
ListKey_RoleOnly(user) == <<"orders:list:" \o user.role, 1>>

ListKey(user) == <<"orders:list:" \o user.role, user.id>>

ListKeys == {<<"orders:list:" \o r, i>> : r \in AnyRole, i \in DOMAIN SeedUsers}

CacheKeys == (ResourceKinds \X ResourceIds) \cup ListKeys

\* redisClient.get(key) found nothing
NoEntry == [id |-> NULL]

\* the principals that send read requests
ReadUsers == {2, 3, 4, 5, 6}

IdleRead ==
    [pc |-> "idle", kind |-> "none", user |-> NoUser, id |-> NULL,
     status |-> Pending, body |-> NoEntry]

\* the table a kind of resource is stored in
TableOf(kind) == IF kind = "orders" THEN orders ELSE products

\* the owner the service passes as resourceOwnerId: order.customer_id for an
\* order, product.created_by for a product
OwnerOf(kind, row) == IF kind = "orders" THEN row.customer_id ELSE row.created_by

\* cache.isAvailable()
isAvailable == isConnected

\* cache.get(key): null when Redis is unavailable or holds no entry; the entry
\* is the JSON text of the row, which parses back to the same ids and status
CacheGet(key) ==
    IF ~isAvailable THEN NoEntry ELSE redisStore[key]

\* cache.set(key, value, ttl): a no-op when Redis is unavailable
CacheSet(store, key, value) ==
    IF ~isAvailable THEN store ELSE [store EXCEPT ![key] = value]

\* the request ends with a response
Respond(req, status, body) ==
    [req EXCEPT !.pc = "done", !.status = status, !.body = body]

\* authenticate (auth.middleware.ts): no token, no req.user
ReadBegin(kind, user, id) ==
    /\ readReq.pc = "idle"
    /\ readReq' =
          IF user = NoUser
             THEN Respond([IdleRead EXCEPT !.kind = kind, !.id = id], Unauthorized, NoEntry)
             ELSE [pc |-> IF kind = "orders" THEN "gate" ELSE "cacheGet",
                   kind |-> kind, user |-> user, id |-> id,
                   status |-> Pending, body |-> NoEntry]
    /\ UNCHANGED <<users, moreVars, reqVars, permVars, permCheck, orders, products, redisStore, isConnected>>

\* orderRouter.get("/:id", requirePermission(Permission.ORDERS_READ), ...): one
\* hasPermission call, one SELECT of the principal's override rows
ReadGate ==
    /\ readReq.pc = "gate"
    /\ \E overrides \in ReadOrders(RowsOfUser(readReq.user.id)) :
          readReq' =
             IF GateOutcome(<<hasPermission(readReq.user.role, overrides, "orders.read")>>)
                    = "next"
                THEN [readReq EXCEPT !.pc = "cacheGet"]
                ELSE Respond(readReq, Forbidden, NoEntry)
    /\ UNCHANGED <<users, moreVars, reqVars, permVars, permCheck, orders, products, redisStore, isConnected>>

\* getOrderByIdHandler / getProductByIdHandler: "try cache first"
ReadCacheGet ==
    LET cached == CacheGet(CacheKey(readReq.kind, readReq.id))
    IN  /\ readReq.pc = "cacheGet"
        /\ readReq' = IF cached # NoEntry
                         THEN Respond(readReq, OK, cached)
                         ELSE [readReq EXCEPT !.pc = "select"]
        /\ UNCHANGED <<users, moreVars, reqVars, permVars, permCheck, orders, products, redisStore, isConnected>>

\* ordersService.getOrderById / getProductById: findFirst, then canAccessResource
GetById(kind, id, user) ==
    LET table == TableOf(kind)
    IN  IF id \notin DOMAIN table THEN [status |-> NotFound, row |-> NoEntry]
        ELSE IF ~canAccessResource(user, OwnerOf(kind, table[id]),
                                   table[id].merchant_id, "read")
             THEN [status |-> Forbidden, row |-> NoEntry]
             ELSE [status |-> OK, row |-> table[id]]

ReadSelect ==
    LET got == GetById(readReq.kind, readReq.id, readReq.user)
    IN  /\ readReq.pc = "select"
        /\ readReq' = IF got.status = OK
                         THEN [readReq EXCEPT !.pc = "cacheSet", !.body = got.row]
                         ELSE Respond(readReq, got.status, NoEntry)
        /\ UNCHANGED <<users, moreVars, reqVars, permVars, permCheck, orders, products, redisStore, isConnected>>

\* cache.set(cacheKey, row, ttl), then the 200 response
ReadCacheSet ==
    /\ readReq.pc = "cacheSet"
    /\ redisStore' = CacheSet(redisStore, CacheKey(readReq.kind, readReq.id), readReq.body)
    /\ readReq' = Respond(readReq, OK, readReq.body)
    /\ UNCHANGED <<users, moreVars, reqVars, permVars, permCheck, orders, products, isConnected>>

ReadReturn ==
    /\ readReq.pc = "done"
    /\ readReq' = IdleRead
    /\ UNCHANGED <<users, moreVars, reqVars, permVars, permCheck, orders, products, redisStore, isConnected>>

\* setEx: the entry's time to live runs out
RedisExpire(key) ==
    /\ redisStore[key] # NoEntry
    /\ redisStore' = [redisStore EXCEPT ![key] = NoEntry]
    /\ UNCHANGED <<users, moreVars, reqVars, permVars, permCheck, orders, products, isConnected, readReq>>

\* redisClient.on("connect")
RedisConnect ==
    /\ ~isConnected
    /\ isConnected' = TRUE
    /\ UNCHANGED <<users, moreVars, reqVars, permVars, permCheck, orders, products, redisStore, readReq>>

\* redisClient.on("error") / on("disconnect")
RedisDisconnect ==
    /\ isConnected
    /\ isConnected' = FALSE
    /\ UNCHANGED <<users, moreVars, reqVars, permVars, permCheck, orders, products, redisStore, readReq>>

----------------------------------------------------------------------------
(* Calls of the ownership policy, and the checkResourceOwnership middleware *)

\* the principals the policy is called for: every role a token may carry, with
\* and without a merchant_id
PolicyUsers == [id : {3, 4}, role : AnyRole, merchant_id : {NULL, 3, 5}]

\* resourceOwnerId and resourceMerchantId of an AccessContext; both are optional
PolicyOwnerIds    == {Undefined, 3, 4}
PolicyMerchantIds == {Undefined, NULL, 3, 5}

\* the actions the services and the middlewares put in an AccessContext
PolicyActions == {"read", "update", "delete", "cancel", "get", "put"}

IdlePolicy ==
    [op |-> "none", user |-> NoUser, resourceOwnerId |-> Undefined,
     resourceMerchantId |-> Undefined, action |-> "read",
     allowed |-> FALSE, filter |-> EmptyFilter]

\* ABACPolicy.canAccessResource({user, resourceOwnerId, resourceMerchantId, action});
\* the call is synchronous: no step of another handler runs before it returns
CallCanAccessResource(user, resourceOwnerId, resourceMerchantId, action) ==
    /\ policyCall.op = "none"
    /\ ownCheck.pc = "idle"
    /\ policyCall' =
          [op |-> "canAccessResource", user |-> user,
           resourceOwnerId |-> resourceOwnerId,
           resourceMerchantId |-> resourceMerchantId, action |-> action,
           allowed |-> canAccessResource(user, resourceOwnerId, resourceMerchantId, action),
           filter |-> EmptyFilter]
    /\ UNCHANGED <<users, moreVars, permVars, permCheck, resVars, ownCheck, orderReq>>

\* ABACPolicy.canCancelResource({user, resourceOwnerId, resourceMerchantId, action})
CallCanCancelResource(user, resourceOwnerId, resourceMerchantId, action) ==
    /\ policyCall.op = "none"
    /\ ownCheck.pc = "idle"
    /\ policyCall' =
          [op |-> "canCancelResource", user |-> user,
           resourceOwnerId |-> resourceOwnerId,
           resourceMerchantId |-> resourceMerchantId, action |-> action,
           allowed |-> canCancelResource(user, resourceOwnerId, resourceMerchantId),
           filter |-> EmptyFilter]
    /\ UNCHANGED <<users, moreVars, permVars, permCheck, resVars, ownCheck, orderReq>>

\* ABACPolicy.getDataFilter(user)
CallGetDataFilter(user) ==
    /\ policyCall.op = "none"
    /\ ownCheck.pc = "idle"
    /\ policyCall' =
          [IdlePolicy EXCEPT !.op = "getDataFilter", !.user = user,
                             !.filter = getDataFilter(user)]
    /\ UNCHANGED <<users, moreVars, permVars, permCheck, resVars, ownCheck, orderReq>>

\* the caller goes on with the result
PolicyReturn ==
    /\ policyCall.op # "none"
    /\ policyCall' = IdlePolicy
    /\ UNCHANGED <<users, moreVars, permVars, permCheck, resVars, ownCheck, orderReq>>

\* the HTTP methods of the single-resource routes
Methods == {"GET", "PUT", "PATCH", "DELETE"}

\* req.method.toLowerCase()
toLowerCase(method) ==
    CASE method = "GET"    -> "get"
      [] method = "PUT"    -> "put"
      [] method = "PATCH"  -> "patch"
      [] method = "DELETE" -> "delete"
      [] method = "NEW@SHOP" -> "new@shop"
      [] OTHER -> method      \* a string without upper-case letters

\* the action checkResourceOwnership puts in the AccessContext
ActionOf(method) == toLowerCase(method)

OwnCheckUsers == {2, 3, 4, 5}

IdleOwnCheck ==
    [pc |-> "idle", user |-> NoUser, method |-> "GET", id |-> NULL, outcome |-> Pending]

\* ordersService.getOrderOwnerInfo(orderId): the order's row, or NoEntry for
\* the NotFound it throws
getOrderOwnerInfo(orderId) ==
    IF orderId \in DOMAIN orders THEN orders[orderId] ELSE NoEntry

\* checkResourceOwnership("id", getOrderOwnerInfo) is entered
OwnCheckBegin(user, method, id) ==
    /\ ownCheck.pc = "idle"
    /\ policyCall.op = "none"
    /\ ownCheck' =
          IF user = NoUser
             THEN [IdleOwnCheck EXCEPT !.pc = "done", !.method = method, !.id = id,
                                       !.outcome = Unauthorized]
             ELSE [pc |-> "lookup", user |-> user, method |-> method, id |-> id,
                   outcome |-> Pending]
    /\ UNCHANGED <<users, moreVars, permVars, permCheck, resVars, policyCall, orderReq>>

\* await getResourceOwner(resourceId), then the canAccessResource decision
OwnCheckLookup ==
    /\ ownCheck.pc = "lookup"
    /\ LET info == getOrderOwnerInfo(ownCheck.id)
       IN  ownCheck' =
             [ownCheck EXCEPT
                !.pc = "done",
                !.outcome =
                    IF info = NoEntry THEN NotFound
                    ELSE IF ~canAccessResource(ownCheck.user, info.customer_id,
                                               info.merchant_id, ActionOf(ownCheck.method))
                         THEN Forbidden
                    ELSE "next"]
    /\ UNCHANGED <<users, moreVars, permVars, permCheck, resVars, policyCall, orderReq>>

OwnCheckReturn ==
    /\ ownCheck.pc = "done"
    /\ ownCheck' = IdleOwnCheck
    /\ UNCHANGED <<users, moreVars, permVars, permCheck, resVars, policyCall, orderReq>>

----------------------------------------------------------------------------
(* Order requests: cancel, status update and list (orders.routes.ts,        *)
(* orders.controller.ts, orders.service.ts)                                 *)

\* orderStatusEnum
OrderStatuses ==
    {"pending", "confirmed", "processing", "shipped", "delivered", "cancelled", "refunded"}

\* a cancellable set that lets an order in processing be cancelled too
cancellableStatuses_Processing == {"pending", "confirmed", "processing"}

\* cancelOrder: const cancellableStatuses = ["pending", "confirmed"]
cancellableStatuses == {"pending", "confirmed"}

\* request slots: order requests that may be in flight together
OrderSlots == {"o1", "o2"}

\* the principals that send order requests: one of every role, a second customer,
\* and a token whose role is none of the five
OrderUsers ==
    {AuthUserOf(u) : u \in {1, 3, 4, 5, 6}} \cup
    {[id |-> 6, role |-> UNKNOWN_ROLE, merchant_id |-> NULL]}

OrderKinds == {"cancel", "status", "list"}

\* the statuses the administrator of slot o2 moves order 1 to
AdminStatuses == {"confirmed", "shipped"}

\* the cancel route guarded by the permission of the status route
RoutePermission_CancelAsksUpdate(kind) ==
    CASE kind \in {"cancel", "status"} -> "orders.update"
      [] kind = "list" -> "orders.read"
      [] kind = "create" -> "orders.create"

\* the permission each route asks requirePermission for
RoutePermission(kind) ==
    CASE kind = "cancel" -> "orders.cancel"
      [] kind = "status" -> "orders.update"
      [] kind = "list"   -> "orders.read"
      [] kind = "create" -> "orders.create"

IdleOrderReq ==
    [pc |-> "idle", kind |-> "none", user |-> NoUser, id |-> NULL,
     newStatus |-> "pending", order |-> NoEntry, status |-> Pending, body |-> {}]

\* the request ends with a response
RespondOrder(req, status, body) ==
    [req EXCEPT !.pc = "done", !.status = status, !.body = body]

\* orderRouter.use(authenticate): no token, no req.user
OrderBegin(s, kind, user, id, newStatus) ==
    /\ orderReq[s].pc = "idle"
    /\ orderReq' =
          [orderReq EXCEPT ![s] =
              IF user = NoUser
                 THEN RespondOrder([IdleOrderReq EXCEPT !.kind = kind, !.id = id,
                                                        !.newStatus = newStatus],
                                   Unauthorized, {})
                 ELSE [pc |-> "gate", kind |-> kind, user |-> user, id |-> id,
                       newStatus |-> newStatus, order |-> NoEntry,
                       status |-> Pending, body |-> {}]]
    /\ UNCHANGED <<users, moreVars, permVars, permCheck, resVars, policyCall, ownCheck>>

\* the stage of a route that follows requirePermission
AfterGate(kind) ==
    CASE kind = "cancel" -> "ownership"
      [] kind = "status" -> "select"
      [] kind = "list"   -> "cacheGet"
      [] kind = "create" -> "write"

\* requirePermission(Permission.ORDERS_CANCEL | ORDERS_UPDATE | ORDERS_READ): one
\* hasPermission call, one SELECT of the principal's override rows
OrderGate(s) ==
    LET req == orderReq[s]
    IN  /\ req.pc = "gate"
        /\ \E overrides \in ReadOrders(RowsOfUser(req.user.id)) :
              orderReq' =
                 [orderReq EXCEPT ![s] =
                     IF GateOutcome(<<hasPermission(req.user.role, overrides,
                                                    RoutePermission(req.kind))>>) = "next"
                        THEN [req EXCEPT !.pc = AfterGate(req.kind)]
                        ELSE RespondOrder(req, Forbidden, {})]
        /\ UNCHANGED <<users, moreVars, permVars, permCheck, resVars, policyCall, ownCheck>>

\* checkCancelOwnership("id", getOrderOwnerInfo): what the middleware does with
\* the owner info it awaited
OwnershipOutcome(user, info) ==
    IF info = NoEntry THEN NotFound
    ELSE IF ~canCancelResource(user, info.customer_id, info.merchant_id) THEN Forbidden
    ELSE "next"

\* the middleware checkCancelOwnership of the cancel routes
CancelOwnership(s) ==
    LET req == orderReq[s]
        outcome == OwnershipOutcome(req.user, getOrderOwnerInfo(req.id))
    IN  /\ req.pc = "ownership"
        /\ orderReq' =
              [orderReq EXCEPT ![s] =
                  IF outcome = "next" THEN [req EXCEPT !.pc = "select"]
                                      ELSE RespondOrder(req, outcome, {})]
        /\ UNCHANGED <<users, moreVars, permVars, permCheck, resVars, policyCall, ownCheck>>

\* cancelOrder(id, user) up to its UPDATE: order is the row findFirst returned,
\* NoEntry when there is none
cancelOrderOutcome(user, order) ==
    IF order = NoEntry THEN NotFound
    ELSE IF ~canCancelResource(user, order.customer_id, order.merchant_id) THEN Forbidden
    ELSE IF order.status \notin cancellableStatuses THEN BadRequest
    ELSE "write"

\* updateOrderStatus(id, status, user) up to its UPDATE: getOrderById (findFirst,
\* canAccessResource for "read"), then canAccessResource for "update"
updateOrderStatusOutcome(user, order) ==
    IF order = NoEntry THEN NotFound
    ELSE IF ~canAccessResource(user, order.customer_id, order.merchant_id, "read")
         THEN Forbidden
    ELSE IF ~canAccessResource(user, order.customer_id, order.merchant_id, "update")
         THEN Forbidden
    ELSE "write"

\* the SELECT of cancelOrder / of getOrderById inside updateOrderStatus, and the
\* checks made on the row it returned
OrderSelect(s) ==
    LET req == orderReq[s]
        order == getOrderOwnerInfo(req.id)
        outcome == IF req.kind = "cancel"
                      THEN cancelOrderOutcome(req.user, order)
                      ELSE updateOrderStatusOutcome(req.user, order)
    IN  /\ req.pc = "select"
        /\ orderReq' =
              [orderReq EXCEPT ![s] =
                  IF outcome = "write" THEN [req EXCEPT !.pc = "write", !.order = order]
                                       ELSE RespondOrder([req EXCEPT !.order = order],
                                                         outcome, {})]
        /\ UNCHANGED <<users, moreVars, permVars, permCheck, resVars, policyCall, ownCheck>>

\* db.update(ordersTable).set({status, updated_at}).where(eq(ordersTable.id, id))
SetStatus(table, id, status) == [table EXCEPT ![id].status = status]

\* the UPDATE of cancelOrder: status "cancelled"
CancelWrite(s) ==
    LET req == orderReq[s]
    IN  /\ req.pc = "write"
        /\ req.kind = "cancel"
        /\ orders' = SetStatus(orders, req.id, "cancelled")
        /\ orderReq' = [orderReq EXCEPT ![s] =
                           [req EXCEPT !.pc = "invalidate", !.body = {orders'[req.id]}]]
        /\ UNCHANGED <<users, moreVars, permVars, permCheck, products, redisStore, isConnected,
                       readReq, policyCall, ownCheck>>

\* the UPDATE of updateOrderStatus: the status of the request body
UpdateWrite(s) ==
    LET req == orderReq[s]
    IN  /\ req.pc = "write"
        /\ req.kind = "status"
        /\ orders' = SetStatus(orders, req.id, req.newStatus)
        /\ orderReq' = [orderReq EXCEPT ![s] =
                           [req EXCEPT !.pc = "invalidate", !.body = {orders'[req.id]}]]
        /\ UNCHANGED <<users, moreVars, permVars, permCheck, products, redisStore, isConnected,
                       readReq, policyCall, ownCheck>>

\* the most rows ordersTable holds here
MaxOrders == 2

\* POST /orders/create: the body names the customer and the merchant of the order
OrderCreateBegin(s, user, customer_id, merchant_id) ==
    /\ orderReq[s].pc = "idle"
    /\ Cardinality(DOMAIN orders) < MaxOrders
    /\ orderReq' =
          [orderReq EXCEPT ![s] =
              IF user = NoUser
                 THEN RespondOrder([IdleOrderReq EXCEPT !.kind = "create"],
                                   Unauthorized, {})
                 ELSE [IdleOrderReq EXCEPT
                          !.pc = "gate", !.kind = "create", !.user = user,
                          !.order = [id |-> NULL, customer_id |-> customer_id,
                                     merchant_id |-> merchant_id,
                                     status |-> "pending"]]]
    /\ UNCHANGED <<users, moreVars, permVars, permCheck, resVars, policyCall, ownCheck>>

\* the INSERT of createOrder: customer and merchant of the body, the default
\* status, the next value of the identity column
CreateWrite(s) ==
    LET req == orderReq[s]
        id  == MathMax(DOMAIN orders) + 1
    IN  /\ req.pc = "write"
        /\ req.kind = "create"
        /\ orders' = orders @@ (id :> [req.order EXCEPT !.id = id])
        /\ orderReq' = [orderReq EXCEPT ![s] =
                           [req EXCEPT !.pc = "invalidate", !.body = {orders'[id]}]]
        /\ UNCHANGED <<users, moreVars, permVars, permCheck, products, redisStore, isConnected,
                       readReq, policyCall, ownCheck>>

\* cache.invalidateOrderCache(id, customer_id, merchant_id): of the keys it
\* deletes (orders:all, orders:<id>, orders:user:<id>, orders:merchant:<id>)
\* only orders:<id> is ever set; no orders:list:<hash> key is among them
invalidateOrderCache(store, orderId) ==
    IF Truthy(orderId) THEN CacheSet(store, CacheKey("orders", orderId), NoEntry)
                       ELSE store

\* the handler invalidates the order's cache entries and answers 200 (201 for
\* a created order, whose id it does not pass to invalidateOrderCache)
OrderInvalidate(s) ==
    LET req == orderReq[s]
    IN  /\ req.pc = "invalidate"
        /\ redisStore' = invalidateOrderCache(redisStore, req.id)
        /\ orderReq' = [orderReq EXCEPT ![s] =
                           RespondOrder(req, IF req.kind = "create" THEN Created ELSE OK,
                                        req.body)]
        /\ UNCHANGED <<users, moreVars, permVars, permCheck, orders, products, isConnected,
                       readReq, policyCall, ownCheck>>

\* the WHERE clause getAllOrdersHandler builds from the data filter: only the
\* fields merchant_id and customer_id of the filter are looked at
MatchesWhere(filter, row) ==
    /\ Truthy(FieldOf(filter, "merchant_id")) => row.merchant_id = filter["merchant_id"]
    /\ Truthy(FieldOf(filter, "customer_id")) => row.customer_id = filter["customer_id"]

\* getAllOrdersHandler: "try cache first"
ListCacheGet(s) ==
    LET req == orderReq[s]
        cached == CacheGet(ListKey(req.user))
    IN  /\ req.pc = "cacheGet"
        /\ orderReq' = [orderReq EXCEPT ![s] =
                           IF cached # NoEntry THEN RespondOrder(req, OK, cached.rows)
                                               ELSE [req EXCEPT !.pc = "query"]]
        /\ UNCHANGED <<users, moreVars, permVars, permCheck, resVars, policyCall, ownCheck>>

\* getAllOrdersHandler: the SELECT restricted by ABACPolicy.getDataFilter(req.user)
ListQuery(s) ==
    LET req == orderReq[s]
        dataFilter == getDataFilter(req.user)
    IN  /\ req.pc = "query"
        /\ orderReq' =
              [orderReq EXCEPT ![s] =
                  [req EXCEPT !.pc = "cacheSet",
                              !.body = {orders[i] : i \in {j \in DOMAIN orders :
                                                        MatchesWhere(dataFilter, orders[j])}}]]
        /\ UNCHANGED <<users, moreVars, permVars, permCheck, resVars, policyCall, ownCheck>>

\* getAllOrdersHandler: the list is cached and returned
ListCacheSet(s) ==
    LET req == orderReq[s]
    IN  /\ req.pc = "cacheSet"
        /\ redisStore' = CacheSet(redisStore, ListKey(req.user), [rows |-> req.body])
        /\ orderReq' = [orderReq EXCEPT ![s] = RespondOrder(req, OK, req.body)]
        /\ UNCHANGED <<users, moreVars, permVars, permCheck, orders, products, isConnected,
                       readReq, policyCall, ownCheck>>

\* the response has been sent
OrderReturn(s) ==
    /\ orderReq[s].pc = "done"
    /\ orderReq' = [orderReq EXCEPT ![s] = IdleOrderReq]
    /\ UNCHANGED <<users, moreVars, permVars, permCheck, resVars, policyCall, ownCheck>>

\* override rows an administrator has written before the requests arrive: the
\* viewer is granted orders.cancel and orders.update, customer 4 has orders.cancel
\* revoked, user 6 is granted orders.read
OrderOverrides ==
    {[id |-> 1, user_id |-> 5, permission |-> "orders.cancel", granted |-> TRUE],
     [id |-> 2, user_id |-> 5, permission |-> "orders.update", granted |-> TRUE],
     [id |-> 3, user_id |-> 4, permission |-> "orders.cancel", granted |-> FALSE],
     [id |-> 4, user_id |-> 6, permission |-> "orders.read", granted |-> TRUE]}

\* ordersTable when the requests arrive: the seeded order and a shipped order of
\* another customer and merchant
OrdersAtStart ==
    SeedOrders @@
    (3 :> [id |-> 3, customer_id |-> 6, merchant_id |-> 2, status |-> "shipped"])

----------------------------------------------------------------------------
\* The role gate: requireRole(...roles) of the RBAC middleware.

\* ROLE_HIERARCHY[role]; a key the record does not have reads as undefined
ROLE_HIERARCHY(role) ==
    CASE role = SUPER_ADMIN -> 5
      [] role = ADMIN       -> 4
      [] role = MERCHANT    -> 3
      [] role = CUSTOMER    -> 2
      [] role = VIEWER      -> 1
      [] OTHER              -> Undefined

\* a < b on JavaScript numbers: undefined converts to NaN, and every
\* comparison with NaN is false
LessThan(a, b) == a # Undefined /\ b # Undefined /\ a < b

\* the longest list of required roles a route is given here
MaxRoles == 2

\* the role lists a route can pass: non-empty lists of recognised roles
\* (includes and Math.max do not depend on their order)
RoleLists == {roles \in SUBSET Role : Cardinality(roles) \in 1..MaxRoles}

\* req.user at the role gate: absent, or a principal of any role, the
\* unrecognised one included (the cast "as Role" checks nothing at run time)
RoleCheckUsers ==
    {NoUser} \cup {[id |-> 5, role |-> r, merchant_id |-> NULL] : r \in AnyRole}

\* the outcome of the middleware: a thrown status, or "next"
requireRole(user, roles) ==
    IF user = NoUser THEN Unauthorized
    ELSE IF user.role \notin roles
         THEN LET userRoleLevel == ROLE_HIERARCHY(user.role)
                  requiredLevel ==
                      MathMax({OrElse(ROLE_HIERARCHY(r), 0) : r \in roles})
              IN  IF LessThan(userRoleLevel, requiredLevel)
                  THEN Forbidden
                  ELSE "next"
         ELSE "next"

IdleRoleCheck == [user |-> NoUser, roles |-> {}, outcome |-> "none"]

\* one invocation of the middleware (it is synchronous)
RequireRole(user, roles) ==
    /\ roleCheck' = [user |-> user, roles |-> roles,
                     outcome |-> requireRole(user, roles)]
    /\ UNCHANGED <<users, permVars, permCheck, resVars, reqVars, userReq, productReq>>

----------------------------------------------------------------------------
\* POST /users: authenticate, requirePermission(USERS_CREATE), createUser.

\* the most rows usersTable holds here
MaxUsers == 8

\* req.user of a create-user request: absent, or the super admin, the admin or
\* the merchant
UserActors == {NoUser} \cup {AuthUserOf(u) : u \in {1, 2, 3}}

\* req.body: an email (taken, new, or new in upper case), a role (one of the
\* five, an unrecognised one, or absent) and an optional merchant_id
UserBodies ==
    [email : {"u4@shop", "new@shop", "NEW@SHOP", "other@shop"},
     role : AnyRole \cup {"undefined"},
     merchant_id : {Undefined, 3}]

\* registerUserSchema.safeParse(body): the role is one of the enum (customer
\* when absent), merchant_id a positive integer when given
registerUserSchema(body) ==
    [success |-> /\ body.role \in Role \cup {"undefined"}
                 /\ body.merchant_id = Undefined \/ body.merchant_id > 0,
     data |-> [body EXCEPT !.role = IF body.role = "undefined" THEN CUSTOMER
                                    ELSE body.role]]

IdleUserReq ==
    [pc |-> "idle", actor |-> NoUser,
     body |-> [email |-> "none", role |-> "none", merchant_id |-> Undefined],
     status |-> Pending, created |-> NULL]

\* authenticate: a request without a principal ends with Unauthorized
UserBegin(actor, body) ==
    /\ userReq.pc = "idle"
    /\ Cardinality(DOMAIN users) < MaxUsers
    /\ userReq' = IF actor = NoUser
                     THEN [IdleUserReq EXCEPT !.pc = "done", !.body = body,
                                              !.status = Unauthorized]
                     ELSE [IdleUserReq EXCEPT !.pc = "gate", !.actor = actor,
                                              !.body = body]
    /\ UNCHANGED <<users, permVars, permCheck, resVars, reqVars, roleCheck, productReq>>

\* requirePermission(Permission.USERS_CREATE)
UserGate ==
    /\ userReq.pc = "gate"
    /\ \E overrides \in ReadOrders(RowsOfUser(userReq.actor.id)) :
          userReq' =
             IF GateOutcome(<<hasPermission(userReq.actor.role, overrides,
                                            "users.create")>>) = "next"
                THEN [userReq EXCEPT !.pc = "select"]
                ELSE [userReq EXCEPT !.pc = "done", !.status = Forbidden]
    /\ UNCHANGED <<users, permVars, permCheck, resVars, reqVars, roleCheck, productReq>>

\* createUser parses the body and calls registerUser, whose first query looks
\* the lower-cased email up
UserSelect ==
    LET parseResult == registerUserSchema(userReq.body)
    IN  /\ userReq.pc = "select"
        /\ userReq' =
              IF ~parseResult.success
                 THEN [userReq EXCEPT !.pc = "done", !.status = BadRequest]
              ELSE IF \E i \in DOMAIN users :
                         users[i].email = toLowerCase(parseResult.data.email)
                 THEN [userReq EXCEPT !.pc = "done", !.status = Conflict]
              ELSE [userReq EXCEPT !.pc = "insert", !.body = parseResult.data]
        /\ UNCHANGED <<users, permVars, permCheck, resVars, reqVars, roleCheck, productReq>>

\* registerUser hashes the password and inserts the row with the role of the
\* body; the id is the next value of the identity column
UserInsert ==
    LET data == userReq.body
        id   == Cardinality(DOMAIN users) + 1
    IN  /\ userReq.pc = "insert"
        /\ users' = users @@
              (id :> [role |-> data.role,
                      merchant_id |-> OrElse(data.merchant_id, NULL),
                      email |-> toLowerCase(data.email)])
        /\ userReq' = [userReq EXCEPT !.pc = "done", !.status = Created,
                                      !.created = id]
        /\ UNCHANGED <<permVars, permCheck, resVars, reqVars, roleCheck, productReq>>

\* the response has been sent
UserReturn ==
    /\ userReq.pc = "done"
    /\ userReq' = IdleUserReq
    /\ UNCHANGED <<users, permVars, permCheck, resVars, reqVars, roleCheck, productReq>>

\* an override row written before the requests arrive: the admin is granted
\* users.create
UserOverrides ==
    {[id |-> 1, user_id |-> 2, permission |-> "users.create", granted |-> TRUE]}

----------------------------------------------------------------------------
\* POST /products/create, PUT /products/update/:id, DELETE /products/delete/:id:
\* authenticate, then the handler.

\* the most rows productsTable holds here
MaxProducts == 2

ProductKinds == {"create", "update", "delete"}

\* req.user of a product request: absent, or one of the seeded users
ProductUsers == {NoUser} \cup {AuthUserOf(u) : u \in DOMAIN SeedUsers}

IdleProductReq ==
    [pc |-> "idle", kind |-> "none", user |-> NoUser, id |-> NULL,
     name |-> "none", status |-> Pending]

\* authenticate and the handler's own test of req.user; the create handler
\* goes on to createProduct, the other two to getProductById
ProductBegin(kind, user, id, name) ==
    /\ productReq.pc = "idle"
    /\ kind = "create" => Cardinality(DOMAIN products) < MaxProducts
    /\ productReq' =
          [IdleProductReq EXCEPT
              !.kind = kind, !.id = id, !.name = name, !.user = user,
              !.pc = IF user = NoUser THEN "done"
                     ELSE IF kind = "create" THEN "write" ELSE "select",
              !.status = IF user = NoUser THEN Unauthorized ELSE Pending]
    /\ UNCHANGED <<users, permVars, permCheck, resVars, reqVars, roleCheck, userReq>>

\* updateProduct / deleteProduct: getProductById (findFirst, canAccessResource
\* for "read") and then canAccessResource for the action of the request
ProductSelect ==
    LET req == productReq
    IN  /\ req.pc = "select"
        /\ productReq' =
              IF req.id \notin DOMAIN products
                 THEN [req EXCEPT !.pc = "done", !.status = NotFound]
              ELSE IF /\ canAccessResource(req.user, products[req.id].created_by,
                                           products[req.id].merchant_id, "read")
                      /\ canAccessResource(req.user, products[req.id].created_by,
                                           products[req.id].merchant_id, req.kind)
                 THEN [req EXCEPT !.pc = "write"]
              ELSE [req EXCEPT !.pc = "done", !.status = Forbidden]
        /\ UNCHANGED <<users, permVars, permCheck, resVars, reqVars, roleCheck, userReq>>

\* the INSERT of createProduct, the UPDATE of updateProduct, the soft delete of
\* deleteProduct
ProductWrite ==
    LET req == productReq
        id  == Cardinality(DOMAIN products) + 1
    IN  /\ req.pc = "write"
        /\ products' =
              CASE req.kind = "create" ->
                     products @@
                     (id :> [id |-> id, created_by |-> req.user.id,
                             merchant_id |-> OrElse(req.user.merchant_id, req.user.id),
                             name |-> req.name, deleted_at |-> NULL])
                [] req.kind = "update" ->
                     [products EXCEPT ![req.id].name = req.name]
                [] req.kind = "delete" ->
                     [products EXCEPT ![req.id].deleted_at = 1]
        /\ productReq' = [req EXCEPT !.pc = "invalidate"]
        /\ UNCHANGED <<users, permVars, permCheck, orders, redisStore, isConnected,
                       readReq, reqVars, roleCheck, userReq>>

\* cache.invalidateProductCache(productId): every products:* key is deleted
invalidateProductCache(store) ==
    IF ~isAvailable THEN store
    ELSE [k \in DOMAIN store |-> IF k[1] = "products" THEN NoEntry ELSE store[k]]

\* the handler invalidates the product cache and answers
ProductInvalidate ==
    /\ productReq.pc = "invalidate"
    /\ redisStore' = invalidateProductCache(redisStore)
    /\ productReq' = [productReq EXCEPT
                         !.pc = "done",
                         !.status = IF productReq.kind = "create" THEN Created ELSE OK]
    /\ UNCHANGED <<users, permVars, permCheck, orders, products, isConnected,
                   readReq, reqVars, roleCheck, userReq>>

\* the response has been sent
ProductReturn ==
    /\ productReq.pc = "done"
    /\ productReq' = IdleProductReq
    /\ UNCHANGED <<users, permVars, permCheck, resVars, reqVars, roleCheck, userReq>>

----------------------------------------------------------------------------
Init ==
    /\ users = SeedUsers
    /\ userPermissions = {}
    /\ nextPermId = 1
    /\ grantCall = [s \in GrantSlots |-> IdleCall]
    /\ lastDone = NoCall
    /\ permCheck = IdleCheck
    /\ orders = SeedOrders
    /\ products = SeedProducts
    /\ redisStore = [k \in CacheKeys |-> NoEntry]
    /\ isConnected = FALSE
    /\ readReq = IdleRead
    /\ policyCall = IdlePolicy
    /\ ownCheck = IdleOwnCheck
    /\ orderReq = [s \in OrderSlots |-> IdleOrderReq]
    /\ roleCheck = IdleRoleCheck
    /\ userReq = IdleUserReq
    /\ productReq = IdleProductReq

\* POST /permissions requests served concurrently
Next ==
    \/ \E s \in GrantSlots, a \in GrantActors, d \in GrantInputs :
          GrantBegin(s, AuthUserOf(a), d)
    \/ \E s \in GrantSlots : GrantSelectTarget(s)
    \/ \E s \in GrantSlots : GrantSelectExisting(s)
    \/ \E s \in GrantSlots : GrantWrite(s)
    \/ \E s \in GrantSlots : GrantReturn(s)

Spec == Init /\ [][Next]_vars

\* POST /permissions requests served one after the other: a request begins
\* when the one before it has been answered
NextSeq ==
    \/ \E a \in GrantActors, d \in GrantInputs : GrantBegin("g1", AuthUserOf(a), d)
    \/ GrantSelectTarget("g1")
    \/ GrantSelectExisting("g1")
    \/ GrantWrite("g1")
    \/ GrantReturn("g1")

SpecSeq == Init /\ [][NextSeq]_vars

\* requests passing through requirePermission while an administrator grants
\* and revokes the permissions they are checked for
NextGate ==
    \/ \E d \in GrantInputs :
          /\ d.user_id \in CheckUsers
          /\ GrantBegin("g1", AuthUserOf(1), d)
    \/ GrantSelectTarget("g1")
    \/ GrantSelectExisting("g1")
    \/ GrantWrite("g1")
    \/ GrantReturn("g1")
    \/ \E u \in CheckUsers, l \in CheckLists : CheckBegin(AuthUserOf(u), l)
    \/ \E l \in CheckLists : CheckBegin(NoUser, l)
    \/ \E i \in 1..2 : CheckEval(i)
    \/ CheckDecide
    \/ CheckReturn

SpecGate == Init /\ [][NextGate]_vars

\* GET /orders/:id and GET /products/:id requests, one after the other, with the
\* Redis cache in front of the services
NextRead ==
    \/ \E k \in ResourceKinds, u \in ReadUsers, i \in ResourceIds :
          ReadBegin(k, AuthUserOf(u), i)
    \/ \E k \in ResourceKinds, i \in ResourceIds : ReadBegin(k, NoUser, i)
    \/ ReadGate
    \/ ReadCacheGet
    \/ ReadSelect
    \/ ReadCacheSet
    \/ ReadReturn
    \/ \E key \in CacheKeys : RedisExpire(key)
    \/ RedisConnect
    \/ RedisDisconnect

SpecRead == Init /\ [][NextRead]_vars

\* the state order requests start from: Init with a second order, and with or
\* without the override rows
InitOrders ==
    /\ users = SeedUsers
    /\ userPermissions \in {{}, OrderOverrides}
    /\ nextPermId = Cardinality(userPermissions) + 1
    /\ grantCall = [s \in GrantSlots |-> IdleCall]
    /\ lastDone = NoCall
    /\ permCheck = IdleCheck
    /\ orders = OrdersAtStart
    /\ products = SeedProducts
    /\ redisStore = [k \in CacheKeys |-> NoEntry]
    /\ isConnected = FALSE
    /\ readReq = IdleRead
    /\ policyCall = IdlePolicy
    /\ ownCheck = IdleOwnCheck
    /\ orderReq = [s \in OrderSlots |-> IdleOrderReq]
    /\ roleCheck = IdleRoleCheck
    /\ userReq = IdleUserReq
    /\ productReq = IdleProductReq

\* cancel, status-update and list requests of any principal on slot o1, while an
\* administrator's status updates of order 1 are served on slot o2
NextOrders ==
    \/ \E u \in OrderUsers \cup {NoUser}, i \in ResourceIds :
          OrderBegin("o1", "cancel", u, i, "pending")
    \/ \E u \in OrderUsers, i \in ResourceIds, st \in OrderStatuses :
          OrderBegin("o1", "status", u, i, st)
    \/ \E u \in OrderUsers : OrderBegin("o1", "list", u, NULL, "pending")
    \/ \E st \in AdminStatuses : OrderBegin("o2", "status", AuthUserOf(2), 1, st)
    \/ \E s \in OrderSlots : OrderGate(s)
    \/ CancelOwnership("o1")
    \/ \E s \in OrderSlots : OrderSelect(s)
    \/ CancelWrite("o1")
    \/ \E s \in OrderSlots : UpdateWrite(s)
    \/ \E s \in OrderSlots : OrderInvalidate(s)
    \/ ListCacheGet("o1")
    \/ ListQuery("o1")
    \/ ListCacheSet("o1")
    \/ \E s \in OrderSlots : OrderReturn(s)

SpecOrders == InitOrders /\ [][NextOrders]_vars

\* calls of the ABACPolicy methods with every context, and requests passing
\* through checkResourceOwnership
NextPolicy ==
    \/ \E u \in PolicyUsers, o \in PolicyOwnerIds, m \in PolicyMerchantIds,
          a \in PolicyActions : CallCanAccessResource(u, o, m, a)
    \/ \E u \in PolicyUsers, o \in PolicyOwnerIds, m \in PolicyMerchantIds,
          a \in PolicyActions : CallCanCancelResource(u, o, m, a)
    \/ \E u \in PolicyUsers : CallGetDataFilter(u)
    \/ PolicyReturn
    \/ \E u \in OwnCheckUsers, m \in Methods, i \in ResourceIds :
          OwnCheckBegin(AuthUserOf(u), m, i)
    \/ \E m \in Methods, i \in ResourceIds : OwnCheckBegin(NoUser, m, i)
    \/ OwnCheckLookup
    \/ OwnCheckReturn

SpecPolicy == Init /\ [][NextPolicy]_vars

\* create-user requests, one at a time, with and without the override
InitUsers ==
    /\ users = SeedUsers
    /\ userPermissions \in {{}, UserOverrides}
    /\ nextPermId = Cardinality(userPermissions) + 1
    /\ grantCall = [s \in GrantSlots |-> IdleCall]
    /\ lastDone = NoCall
    /\ permCheck = IdleCheck
    /\ orders = SeedOrders
    /\ products = SeedProducts
    /\ redisStore = [k \in CacheKeys |-> NoEntry]
    /\ isConnected = FALSE
    /\ readReq = IdleRead
    /\ policyCall = IdlePolicy
    /\ ownCheck = IdleOwnCheck
    /\ orderReq = [s \in OrderSlots |-> IdleOrderReq]
    /\ roleCheck = IdleRoleCheck
    /\ userReq = IdleUserReq
    /\ productReq = IdleProductReq

NextUsers ==
    \/ \E actor \in UserActors, body \in UserBodies : UserBegin(actor, body)
    \/ UserGate
    \/ UserSelect
    \/ UserInsert
    \/ UserReturn

SpecUsers == InitUsers /\ [][NextUsers]_vars

\* product writes, one request at a time
NextProducts ==
    \/ \E kind \in ProductKinds, user \in ProductUsers, id \in ResourceIds,
          name \in {"a", "b"} : ProductBegin(kind, user, id, name)
    \/ ProductSelect
    \/ ProductWrite
    \/ ProductInvalidate
    \/ ProductReturn

SpecProducts == Init /\ [][NextProducts]_vars

\* order requests and get-by-id reads, one request at a time, with the cache
NextCache ==
    \/ /\ readReq.pc = "idle"
       /\ \/ \E u \in {3, 4, 6} : OrderBegin("o1", "list", AuthUserOf(u), NULL, "pending")
          \/ \E m \in {2, 3} : OrderCreateBegin("o1", AuthUserOf(6), 6, m)
          \/ \E i \in ResourceIds : OrderBegin("o1", "status", AuthUserOf(2), i, "shipped")
          \/ \E i \in ResourceIds : OrderBegin("o1", "cancel", AuthUserOf(4), i, "pending")
    \/ /\ orderReq["o1"].pc = "idle"
       /\ \E i \in ResourceIds : ReadBegin("orders", AuthUserOf(2), i)
    \/ OrderGate("o1")
    \/ CancelOwnership("o1")
    \/ OrderSelect("o1")
    \/ CancelWrite("o1")
    \/ UpdateWrite("o1")
    \/ CreateWrite("o1")
    \/ OrderInvalidate("o1")
    \/ ListCacheGet("o1")
    \/ ListQuery("o1")
    \/ ListCacheSet("o1")
    \/ OrderReturn("o1")
    \/ ReadGate
    \/ ReadCacheGet
    \/ ReadSelect
    \/ ReadCacheSet
    \/ ReadReturn
    \/ \E key \in CacheKeys : RedisExpire(key)
    \/ RedisConnect

SpecCache == Init /\ [][NextCache]_vars

\* the role gate alone
NextRole ==
    \E user \in RoleCheckUsers, roles \in RoleLists : RequireRole(user, roles)

SpecRole == Init /\ [][NextRole]_vars


----------------------------------------------------------------------------
(* Properties of the override store and the permission resolver *)

\* the permissions a user has an override row for, by the row's granted value
GrantedTo(userId)   == {r.permission : r \in {x \in RowsOfUser(userId) : x.granted}}
RevokedFrom(userId) == {r.permission : r \in {x \in RowsOfUser(userId) : ~x.granted}}

\* at most one override row for every permission of the user
OneRowPerPermission(userId) ==
    \A p \in Permission : Cardinality(RowsOfPair(userId, p)) <= 1

\* no grantPermission call for the pair is between its first read and its write
NoCallInFlightFor(userId, permission) ==
    \A s \in GrantSlots :
        InFlight(s) =>
            ~(grantCall[s].data.user_id = userId
              /\ grantCall[s].data.permission = permission)

\* slot s takes the step that writes the override and returns successfully
Completes(s) == grantCall[s].pc = "write" /\ grantCall'[s].pc = "done"

\* C1: under any interleaving of grantPermission calls the override store holds
\* at most one row for every (user_id, permission) pair.
C1_OneRowPerPair ==
    \A u \in DOMAIN users, p \in Permission : Cardinality(RowsOfPair(u, p)) <= 1

\* C2: getUserPermissions of a super admin is the set of all 13 permissions in
\* every state of the override store, whatever rows exist for that user.
C2_SuperAdminHasAll ==
    \A u \in DOMAIN users :
        users[u].role = SUPER_ADMIN =>
            \A overrides \in ReadOrders(RowsOfUser(u)) :
                getUserPermissions(SUPER_ADMIN, overrides) = Permission

\* C3: for every user, role and permission, hasPermission is true exactly when
\* the permission is in getUserPermissions, both reading the same rows.
C3_CheckAgreesWithList ==
    \A u \in DOMAIN users, role \in AnyRole :
        \A overrides \in ReadOrders(RowsOfUser(u)) :
            \A p \in Permission :
                hasPermission(role, overrides, p)
                    <=> p \in getUserPermissions(role, overrides)

\* C4: for a role other than super admin and a user with at most one override
\* row per permission, the effective permissions are the role defaults plus the
\* granted overrides minus the revoked ones, in whatever order the rows are read,
\* and hasPermission answers membership in that set.
C4_DefaultsPlusGrantsMinusRevokes ==
    \A u \in DOMAIN users :
        LET granted == GrantedTo(u)
            revoked == RevokedFrom(u)
        IN  OneRowPerPermission(u) =>
                \A overrides \in ReadOrders(RowsOfUser(u)) :
                    \A role \in AnyRole \ {SUPER_ADMIN} :
                        /\ getUserPermissions(role, overrides) =
                              (AuthDefaultRolePermissions(role) \cup granted) \ revoked
                        /\ \A p \in Permission :
                              hasPermission(role, overrides, p) <=>
                                  p \in (RbacDefaultRolePermissions(role) \cup granted)
                                            \ revoked

\* C4 witness: a customer holds a granted override for a permission outside the
\* customer defaults and a revoked override for one of the defaults.
C4_Witness ==
    /\ OneRowPerPermission(4)
    /\ "users.update" \in GrantedTo(4)
    /\ "orders.read" \in RevokedFrom(4)

\* C5: once a grantPermission call for a user who is not a super admin has
\* returned, and until another call for the same pair starts, every hasPermission
\* check of that pair returns the granted value that call wrote.
C5_CheckSeesLastWrite ==
    LET u == lastDone.data.user_id
        p == lastDone.data.permission
    IN  (/\ lastDone # NoCall
         /\ users[u].role # SUPER_ADMIN
         /\ NoCallInFlightFor(u, p))
        => \A overrides \in ReadOrders(RowsOfUser(u)) :
              hasPermission(users[u].role, overrides, p) = lastDone.data.granted

\* what the claim says a grantPermission call ends with
ExpectedGrantResult(actor, userId) ==
    IF actor.role \notin {ADMIN, SUPER_ADMIN} THEN Forbidden
    ELSE IF userId \notin DOMAIN users THEN NotFound
    ELSE IF users[userId].role = SUPER_ADMIN /\ actor.role # SUPER_ADMIN THEN Forbidden
    ELSE OK

\* C6: grantPermission ends Forbidden for an actor who is neither admin nor super
\* admin, NotFound for a missing target, Forbidden for a super-admin target and an
\* actor who is not super admin; the override store changes only in the writing
\* step of a call that none of these cases rejects, only in the rows of that
\* call's target, and the rows of a super admin only for a super-admin actor.
C6_GrantRejections ==
    [][ /\ \A s \in GrantSlots :
              grantCall'[s].pc = "done" =>
                  grantCall'[s].result =
                      ExpectedGrantResult(grantCall'[s].actor, grantCall'[s].data.user_id)
        /\ userPermissions' # userPermissions =>
              \E s \in GrantSlots :
                  /\ Completes(s)
                  /\ grantCall'[s].result = OK
                  /\ ExpectedGrantResult(grantCall[s].actor, grantCall[s].data.user_id) = OK
                  /\ \A u \in DOMAIN users :
                        UserRowsIn(userPermissions', u) # RowsOfUser(u) =>
                            /\ u = grantCall[s].data.user_id
                            /\ users[u].role = SUPER_ADMIN =>
                                  grantCall[s].actor.role = SUPER_ADMIN
      ]_vars

\* C6 witness: an admin's call for a super admin has ended Forbidden while another
\* call for a missing user has ended NotFound, and the store is still empty.
C6_Witness ==
    /\ grantCall["g1"].pc = "done"
    /\ grantCall["g1"].actor.role = ADMIN
    /\ grantCall["g1"].data.user_id = 1
    /\ grantCall["g1"].result = Forbidden
    /\ grantCall["g2"].pc = "done"
    /\ grantCall["g2"].data.user_id = MissingUserId
    /\ grantCall["g2"].result = NotFound
    /\ userPermissions = {}

\* C7: when a grant of a permission to a user who is not a super admin has
\* returned and a revoke of the same permission for the same user runs after it,
\* the pair is left with a single override row, granted = false, and the
\* permission is absent from getUserPermissions and refused by hasPermission.
C7_GrantThenRevoke ==
    [][ \A s \in GrantSlots :
           LET c == grantCall[s]
               u == c.data.user_id
               p == c.data.permission
           IN  (/\ Completes(s)
                /\ c.solo
                /\ lastDone.solo
                /\ lastDone.data = [c.data EXCEPT !.granted = TRUE]
                /\ ~c.data.granted
                /\ users[u].role # SUPER_ADMIN)
               => /\ Cardinality(PairRowsIn(userPermissions', u, p)) = 1
                  /\ \A r \in PairRowsIn(userPermissions', u, p) : ~r.granted
                  /\ \A overrides \in ReadOrders(UserRowsIn(userPermissions', u)) :
                        /\ ~hasPermission(users[u].role, overrides, p)
                        /\ p \notin getUserPermissions(users[u].role, overrides)
      ]_vars

\* C8: when grantPermission calls run one after the other, a grant that repeats
\* the grant before it leaves the override store as the first grant left it, with
\* exactly one row for the pair and granted = true.
C8_GrantTwice ==
    [][ \A s \in GrantSlots :
           LET c == grantCall[s]
               u == c.data.user_id
               p == c.data.permission
           IN  (/\ Completes(s)
                /\ c.data.granted
                /\ lastDone.data = c.data)
               => /\ userPermissions' = userPermissions
                  /\ Cardinality(PairRowsIn(userPermissions', u, p)) = 1
                  /\ \A r \in PairRowsIn(userPermissions', u, p) : r.granted
      ]_vars

\* C8 witness: the first grant has returned and the same grant, started after it,
\* has found the row the first one left and is about to write.
C8_Witness ==
    \E s \in GrantSlots :
        /\ grantCall[s].pc = "write"
        /\ grantCall[s].solo
        /\ grantCall[s].data.granted
        /\ grantCall[s].existing # NULL
        /\ lastDone.data = grantCall[s].data
        /\ Cardinality(RowsOfPair(lastDone.data.user_id, lastDone.data.permission)) = 1

\* the permissions a list names
Listed(permissions) == {permissions[i] : i \in DOMAIN permissions}

\* C9: requirePermission ends a request without a principal as Unauthorized;
\* otherwise it calls next() exactly when one of the hasPermission calls returned
\* true and ends Forbidden when none did; when the override store did not change
\* during the check, that is exactly when the principal has one of the listed
\* permissions, whatever the order of the list and of the evaluation.
C9_AnyPermissionGate ==
    permCheck.pc = "done" =>
        IF permCheck.user = NoUser
           THEN permCheck.outcome = Unauthorized
           ELSE /\ permCheck.outcome \in {"next", Forbidden}
                /\ permCheck.outcome = "next" <=>
                      \E i \in DOMAIN permCheck.permissions :
                          permCheck.hasAnyPermission[i]
                /\ permCheck.stable =>
                      \A overrides \in ReadOrders(RowsOfUser(permCheck.user.id)) :
                          permCheck.outcome = "next" <=>
                              \E p \in Listed(permCheck.permissions) :
                                  hasPermission(permCheck.user.role, overrides, p)

\* C9 witness: a customer whose orders.read was revoked and who was granted
\* users.update has passed a gate that lists both, the refused one first.
C9_Witness ==
    /\ permCheck.pc = "done"
    /\ permCheck.user.id = 4
    /\ permCheck.permissions = <<"orders.read", "users.update">>
    /\ permCheck.hasAnyPermission = <<FALSE, TRUE>>
    /\ permCheck.stable
    /\ permCheck.outcome = "next"

\* C10: get-order-by-id and get-product-by-id answer 200 with the resource only
\* to a principal for whom canAccessResource(principal, owner, merchant, "read")
\* is true, also when the body comes from the cache.
C10_ReadOnlyWithAccess ==
    (readReq.pc = "done" /\ readReq.status = OK) =>
        canAccessResource(readReq.user, OwnerOf(readReq.kind, readReq.body),
                          readReq.body.merchant_id, "read")

----------------------------------------------------------------------------
(* Cancel requests and the order lifecycle *)

\* the principal effectively holds the permission: a super admin always; anyone
\* else by a granting row, or by the role's defaults when no row revokes it
Holds(user, permission) ==
    \/ user.role = SUPER_ADMIN
    \/ permission \in GrantedTo(user.id)
    \/ /\ permission \in RbacDefaultRolePermissions(user.role)
       /\ permission \notin RevokedFrom(user.id)

\* slot o1 answers a cancel request of an authenticated principal in this step
AnswersCancel ==
    /\ orderReq["o1"].pc # "done"
    /\ orderReq'["o1"].pc = "done"
    /\ orderReq'["o1"].kind = "cancel"
    /\ orderReq'["o1"].user # NoUser

\* the status the request saw: the row cancelOrder read, or the stored row when
\* the request was answered before cancelOrder read it
StatusSeen(req) ==
    IF req.order # NoEntry THEN req.order.status ELSE orders[req.id].status

\* the outcome the precedence of C11 gives a cancel request, "any" where it
\* names none
PrecedenceOutcome(req) ==
    IF req.id \notin DOMAIN orders THEN NotFound
    ELSE IF ~canCancelResource(req.user, orders[req.id].customer_id,
                               orders[req.id].merchant_id) THEN Forbidden
    ELSE IF StatusSeen(req) \notin {"pending", "confirmed"} THEN BadRequest
    ELSE "any"

\* C11 as stated: a cancel request is answered NotFound for a missing order,
\* otherwise Forbidden when canCancel is false, otherwise InvalidState (400) for a
\* status outside {pending, confirmed}; a request that fails changes no order.
C11_CancelPrecedence_Original ==
    [][AnswersCancel =>
          LET req == orderReq'["o1"]
          IN  /\ PrecedenceOutcome(req) # "any" => req.status = PrecedenceOutcome(req)
              /\ req.status # OK => orders' = orders]_vars

\* C11 (amended): a cancel request of a principal who does not hold orders.cancel
\* is answered Forbidden before the order is looked up; for a principal who holds
\* it the outcome is NotFound for a missing order, otherwise Forbidden when
\* canCancel is false, otherwise InvalidState (400) for a status outside
\* {pending, confirmed}, otherwise success; a request that fails changes no order.
C11_CancelPrecedence ==
    [][AnswersCancel =>
          LET req == orderReq'["o1"]
          IN  /\ req.status =
                    IF ~Holds(req.user, "orders.cancel") THEN Forbidden
                    ELSE IF PrecedenceOutcome(req) # "any" THEN PrecedenceOutcome(req)
                    ELSE OK
              /\ req.status # OK => orders' = orders]_vars

\* a super admin's cancel of a shipped order has been answered 400, and the
\* order is still shipped
C11_Witness ==
    LET req == orderReq["o1"]
    IN  /\ req.pc = "done"
        /\ req.kind = "cancel"
        /\ req.user.role = SUPER_ADMIN
        /\ req.order # NoEntry
        /\ req.order.status = "shipped"
        /\ req.status = BadRequest
        /\ orders[req.id].status = "shipped"

\* the conditions under which C12 lets a cancel request succeed
MayCancel(req) ==
    /\ Holds(req.user, "orders.cancel")
    /\ canCancelResource(req.user, orders[req.id].customer_id, orders[req.id].merchant_id)
    /\ StatusSeen(req) \in {"pending", "confirmed"}

\* C12: a cancel request on an existing order sets the order's status to
\* "cancelled" if and only if the principal holds orders.cancel, canCancel is true
\* and the status the request read is pending or confirmed; the write changes the
\* status of that one order and nothing else in the orders table.
C12_CancelIff ==
    [][LET req  == orderReq["o1"]
           req2 == orderReq'["o1"]
       IN  /\ (req.kind = "cancel" /\ req.pc = "write" /\ req2.pc # "write") =>
                 /\ MayCancel(req)
                 /\ orders'[req.id].status = "cancelled"
                 /\ orders' = [orders EXCEPT ![req.id].status = "cancelled"]
           /\ (AnswersCancel /\ req2.id \in DOMAIN orders) =>
                 /\ req2.status = OK <=> MayCancel(req2)
                 /\ req2.status = OK => req2.body = {[req2.order EXCEPT !.status = "cancelled"]}
           /\ (req.kind = "cancel" /\ orders' # orders /\ orderReq'["o2"] = orderReq["o2"]) =>
                 req.pc = "write"]_vars

\* customer 4 has cancelled their own pending order
C12_Witness ==
    LET req == orderReq["o1"]
    IN  /\ req.pc = "done"
        /\ req.kind = "cancel"
        /\ req.user.role = CUSTOMER
        /\ req.status = OK
        /\ req.order.status = "pending"
        /\ req.order.customer_id = req.user.id
        /\ orders[req.id].status = "cancelled"

\* the edges of the order lifecycle
LifecycleEdges ==
    {<<"pending", "confirmed">>, <<"confirmed", "processing">>,
     <<"processing", "shipped">>, <<"shipped", "delivered">>,
     <<"pending", "cancelled">>, <<"confirmed", "cancelled">>}

\* C13: every change of an order's status is an edge of the lifecycle (so a
\* delivered, cancelled or refunded order never changes status again).
C13_LifecycleEdgesOnly ==
    [][\A i \in DOMAIN orders :
          orders'[i].status # orders[i].status =>
              <<orders[i].status, orders'[i].status>> \in LifecycleEdges]_vars

----------------------------------------------------------------------------
(* The ownership policy and the data filter *)

\* the policy method op has just been called for a principal of the role
Called(op, role) == policyCall.op = op /\ policyCall.user.role = role

\* C14: canCancel for a merchant is true exactly when the resource's merchant id
\* equals the principal's merchant_id or the principal's id; the resource's owner
\* id plays no part.
C14_MerchantCancelScope ==
    Called("canCancelResource", MERCHANT) =>
        (policyCall.allowed <=>
            \/ policyCall.resourceMerchantId = policyCall.user.merchant_id
            \/ policyCall.resourceMerchantId = policyCall.user.id)

\* a merchant who owns the resource but matches its merchant id neither by
\* merchant_id nor by id has been denied the cancel
C14_Witness ==
    /\ Called("canCancelResource", MERCHANT)
    /\ policyCall.resourceOwnerId = policyCall.user.id
    /\ policyCall.resourceMerchantId \notin {policyCall.user.merchant_id, policyCall.user.id}
    /\ ~policyCall.allowed

\* C15: canAccess for a merchant is true exactly when the resource's owner id
\* equals the principal's id, or the resource's merchant id equals the principal's
\* merchant_id or the principal's id, whatever the action.
C15_MerchantAccess ==
    Called("canAccessResource", MERCHANT) =>
        (policyCall.allowed <=>
            \/ policyCall.resourceOwnerId = policyCall.user.id
            \/ policyCall.resourceMerchantId = policyCall.user.merchant_id
            \/ policyCall.resourceMerchantId = policyCall.user.id)

\* a merchant without merchant_id has been given access to a resource of another
\* owner whose merchant id is the merchant's own id, for an update
C15_Witness ==
    /\ Called("canAccessResource", MERCHANT)
    /\ policyCall.user.merchant_id = NULL
    /\ policyCall.resourceOwnerId # policyCall.user.id
    /\ policyCall.resourceMerchantId = policyCall.user.id
    /\ policyCall.action = "update"
    /\ policyCall.allowed

\* C16: canAccess for a customer is true exactly when the resource's owner id
\* equals the principal's id; the resource's merchant id and the principal's
\* merchant_id never change the result.
C16_CustomerOwnerOnly ==
    Called("canAccessResource", CUSTOMER) =>
        (policyCall.allowed <=> policyCall.resourceOwnerId = policyCall.user.id)

\* a customer whose merchant_id equals the resource's merchant id, and who does
\* not own the resource, has been denied
C16_Witness ==
    /\ Called("canAccessResource", CUSTOMER)
    /\ policyCall.user.merchant_id # NULL
    /\ policyCall.resourceMerchantId = policyCall.user.merchant_id
    /\ policyCall.resourceOwnerId # policyCall.user.id
    /\ ~policyCall.allowed

\* C17: for a viewer every gate that evaluates canAccess admits a read and rejects
\* every mutating request, whatever the owner and merchant: canAccessResource with
\* the actions the services pass, and checkResourceOwnership with the action it
\* derives from the HTTP method.
C17_ViewerReadOnly ==
    /\ Called("canAccessResource", VIEWER) =>
          (policyCall.allowed <=> policyCall.action = "read")
    /\ (ownCheck.pc = "done" /\ ownCheck.user.role = VIEWER
            /\ ownCheck.id \in DOMAIN orders) =>
          ownCheck.outcome = IF ownCheck.method = "GET" THEN "next" ELSE Forbidden

\* C18: a super admin and an admin pass canAccess and canCancel for every owner
\* id, merchant id and action, also when the ids are absent.
C18_AdminsPassAll ==
    (policyCall.op \in {"canAccessResource", "canCancelResource"}
         /\ policyCall.user.role \in {SUPER_ADMIN, ADMIN}) =>
        policyCall.allowed

\* an admin has passed canAccess for a delete with neither owner id nor
\* merchant id in the context
C18_Witness ==
    /\ Called("canAccessResource", ADMIN)
    /\ policyCall.resourceOwnerId = Undefined
    /\ policyCall.resourceMerchantId = Undefined
    /\ policyCall.action = "delete"
    /\ policyCall.allowed

\* C19: getDataFilter returns the empty filter for super admin, admin and viewer,
\* {customer_id: id} for a customer, and {merchant_id: m} for a merchant, m being
\* the principal's merchant_id when it is set and the principal's id when it is not.
C19_ScopeFilter ==
    policyCall.op = "getDataFilter" =>
        LET user   == policyCall.user
            filter == policyCall.filter
        IN  /\ user.role \in {SUPER_ADMIN, ADMIN, VIEWER} => DOMAIN filter = {}
            /\ user.role = CUSTOMER =>
                  DOMAIN filter = {"customer_id"} /\ filter["customer_id"] = user.id
            /\ user.role = MERCHANT =>
                  /\ DOMAIN filter = {"merchant_id"}
                  /\ filter["merchant_id"] =
                        IF user.merchant_id # NULL THEN user.merchant_id ELSE user.id

\* a merchant whose merchant_id is set, and differs from their id, has been given
\* the filter on that merchant_id
C19_Witness ==
    /\ Called("getDataFilter", MERCHANT)
    /\ policyCall.user.merchant_id \notin {NULL, policyCall.user.id}
    /\ policyCall.filter["merchant_id"] = policyCall.user.merchant_id

\* C20: a principal whose role is none of the five gets a never-matching filter,
\* and the order list that applies it is empty, also when an override lets the
\* principal pass the orders.read check.
C20_UnknownRoleSeesNothing ==
    /\ (policyCall.op = "getDataFilter" /\ policyCall.user.role \notin Role) =>
          \A row \in {orders[i] : i \in DOMAIN orders} :
              \E field \in DOMAIN policyCall.filter :
                  row[field] # policyCall.filter[field]
    /\ (orderReq["o1"].pc = "done" /\ orderReq["o1"].kind = "list"
            /\ orderReq["o1"].user # NoUser
            /\ orderReq["o1"].user.role \notin Role
            /\ orderReq["o1"].status = OK) =>
          orderReq["o1"].body = {}

----------------------------------------------------------------------------
\* The role gate.

\* the role gate has been invoked for an authenticated principal
RoleChecked == roleCheck.outcome # "none" /\ roleCheck.user # NoUser

\* C27: requireRole rejects with Forbidden every principal whose role is not
\* one of the five recognised roles, whatever non-empty list of roles is
\* required.
C27_UnknownRoleRejected ==
    (RoleChecked /\ roleCheck.user.role \notin Role)
        => roleCheck.outcome = Forbidden

\* C28: requireRole admits every principal whose role is listed or whose rank
\* is at least the rank of some listed role, and rejects with Forbidden every
\* principal whose rank is below the rank of every listed role.
C28_RoleHierarchy ==
    (RoleChecked /\ roleCheck.user.role \in Role)
        => LET rank == ROLE_HIERARCHY(roleCheck.user.role)
               ranks == {ROLE_HIERARCHY(r) : r \in roleCheck.roles}
           IN  /\ (roleCheck.user.role \in roleCheck.roles
                      \/ \E r \in ranks : rank >= r)
                    => roleCheck.outcome = "next"
               /\ (\A r \in ranks : rank < r)
                    => roleCheck.outcome = Forbidden

----------------------------------------------------------------------------
\* The two predicates and the list scope compared.

\* C25: canCancel is never broader than canAccess: whenever canCancelResource
\* returns true for a principal, identifiers and action, canAccessResource is
\* true for the same context.
C25_CancelWithinAccess ==
    (policyCall.op = "canCancelResource" /\ policyCall.allowed)
        => canAccessResource(policyCall.user, policyCall.resourceOwnerId,
                             policyCall.resourceMerchantId, policyCall.action)

\* a customer has been allowed to cancel their own order, and a merchant an
\* order of their merchant scope whose owner is somebody else
C25_Witness ==
    /\ policyCall.op = "canCancelResource"
    /\ policyCall.allowed
    /\ \/ /\ policyCall.user.role = CUSTOMER
          /\ policyCall.resourceOwnerId = policyCall.user.id
       \/ /\ policyCall.user.role = MERCHANT
          /\ policyCall.resourceOwnerId # policyCall.user.id
          /\ policyCall.resourceMerchantId = policyCall.user.merchant_id

\* the order rows a list can hold: owner and merchant taken from the
\* principals' ids and merchant ids
ScopeRows == [customer_id : {3, 4}, merchant_id : {3, 5}]

\* C29: for the five recognised roles, every row that matches the filter
\* getDataFilter gave a principal passes canAccessResource for the same
\* principal with the row's customer as owner, the row's merchant and the
\* action "read".
C29_ScopeWithinAccess ==
    (policyCall.op = "getDataFilter" /\ policyCall.user.role \in Role)
        => \A row \in ScopeRows :
              MatchesWhere(policyCall.filter, row)
                  => canAccessResource(policyCall.user, row.customer_id,
                                       row.merchant_id, "read")

\* a merchant without merchant_id, and a customer, have been given a filter
\* that matches some rows and excludes others
C29_Witness ==
    /\ policyCall.op = "getDataFilter"
    /\ \/ Called("getDataFilter", MERCHANT) /\ policyCall.user.merchant_id = NULL
       \/ Called("getDataFilter", CUSTOMER)
    /\ \E row \in ScopeRows : MatchesWhere(policyCall.filter, row)
    /\ \E row \in ScopeRows : ~MatchesWhere(policyCall.filter, row)

----------------------------------------------------------------------------
\* Cancellation against concurrent status updates.

\* C26: under any interleaving of a cancel request with concurrent
\* updateOrderStatus requests on the same order, the status that the UPDATE of
\* cancelOrder overwrites is pending or confirmed, never processing, shipped,
\* delivered or refunded.
C26_CancelOverwritesCancellable ==
    [][\A s \in OrderSlots :
          (/\ orderReq[s].kind = "cancel"
           /\ orderReq[s].pc = "write"
           /\ orderReq'[s].pc = "invalidate")
              => orders[orderReq[s].id].status \in cancellableStatuses]_vars

----------------------------------------------------------------------------
\* The create-user operation.

\* C24: the create-user operation never inserts a user whose role ranks equal
\* to or above the role of the actor who sent the request; such a request is
\* rejected with Forbidden.
C24_NoRoleEscalation ==
    [][\A i \in DOMAIN users' \ DOMAIN users :
          ROLE_HIERARCHY(users'[i].role) < ROLE_HIERARCHY(userReq.actor.role)]_vars

----------------------------------------------------------------------------
\* Product writes.

\* C23: a product is created, updated or deleted only by a principal whose
\* effective permissions contain products.create, products.update or
\* products.delete respectively (so never created by a viewer or a customer
\* without an override).
C23_ProductWriteNeedsPermission ==
    [][products' # products =>
          Holds(productReq.user, "products." \o productReq.kind)]_vars

----------------------------------------------------------------------------
\* The order list and the cache.

\* the rows of ordersTable that the principal's data filter selects now
ScopedNow(user) ==
    {orders[i] : i \in {j \in DOMAIN orders :
                          MatchesWhere(getDataFilter(user), orders[j])}}

\* the order-list request of the slot has been answered with a list
ListAnswered(s) ==
    /\ orderReq[s].kind = "list"
    /\ orderReq[s].pc = "done"
    /\ orderReq[s].status = OK

\* C21: over every sequence of list, create, status-update and cancel
\* requests, every order a list returns to a customer has that customer's id
\* as customer_id, and every order returned to a merchant has the merchant's
\* scope value (merchant_id, or id when unset) as merchant_id, whether the
\* list comes from the database or from the cache.
C21_ListScoped ==
    \A s \in OrderSlots :
        ListAnswered(s) =>
            LET user == orderReq[s].user
            IN  \A row \in orderReq[s].body :
                   /\ user.role = CUSTOMER => row.customer_id = user.id
                   /\ user.role = MERCHANT =>
                         row.merchant_id = OrElse(user.merchant_id, user.id)

\* a customer or a merchant has been served a non-empty list from the cache
\* (it differs from what the database holds now) while the table holds an
\* order outside their scope
C21_Witness ==
    /\ ListAnswered("o1")
    /\ orderReq["o1"].user.role \in {CUSTOMER, MERCHANT}
    /\ orderReq["o1"].body # {}
    /\ orderReq["o1"].body # ScopedNow(orderReq["o1"].user)
    /\ \E i \in DOMAIN orders : orders[i] \notin ScopedNow(orderReq["o1"].user)

\* C22: once a create, status update or cancel has completed, a later
\* get-order-by-id and a later order-list request by a principal entitled to
\* see the order return the order's new state, never a cached state from before
\* the change (requests are served one at a time here).
C22_NoStaleRead ==
    /\ ListAnswered("o1") => orderReq["o1"].body = ScopedNow(orderReq["o1"].user)
    /\ (readReq.pc = "done" /\ readReq.kind = "orders" /\ readReq.status = OK)
          => readReq.body = orders[readReq.id]

====
